---- MODULE Spec2Model ----
(***************************************************************************)
(* date-range-checker: a model of src/src/index.ts.                        *)
(*                                                                         *)
(* A JavaScript Date is an instant.  The model counts instants in ticks,   *)
(* TicksPerDay ticks to the calendar day, so that a date can carry a time  *)
(* of day; the time zone has a fixed offset, so one calendar day is always *)
(* TicksPerDay ticks.  A field of a range is a tagged value: undefined,    *)
(* null, a non-Date value, an Invalid Date (getTime() is NaN) or a Date.   *)
(* A call either returns a value or throws; both are recorded in outcome.  *)
(***************************************************************************)
EXTENDS Integers, Sequences, FiniteSets, TLC

VARIABLES referenceDateRange, comparisonDateRange, called, outcome

vars == <<referenceDateRange, comparisonDateRange, called, outcome>>

\* Calendar days 0..MaxDay are offered to the callers as inputs.
MaxDay == 3
\* Resolution of the time of day: ticks per calendar day.
TicksPerDay == 2

MaxTime == (MaxDay + 1) * TicksPerDay - 1

----------------------------------------------------------------------------
\* JavaScript values held by the fields of a DateRange.

Undefined == [kind |-> "undefined", t |-> 0]
Null == [kind |-> "null", t |-> 0]
NotADate == [kind |-> "string", t |-> 0]
InvalidDate == [kind |-> "invalidDate", t |-> 0]
DateAt(t) == [kind |-> "date", t |-> t]

FieldValues ==
    {Undefined, Null, NotADate, InvalidDate} \cup {DateAt(t) : t \in 0..MaxTime}

\* The argument of a call: a missing argument, null, or an object.
UndefinedRange == [kind |-> "undefined", startDate |-> Undefined, endDate |-> Undefined]
NullRange == [kind |-> "null", startDate |-> Undefined, endDate |-> Undefined]
DateRange(s, e) == [kind |-> "object", startDate |-> s, endDate |-> e]

RangeValues ==
    {UndefinedRange, NullRange} \cup {DateRange(s, e) : s \in FieldValues, e \in FieldValues}

\* v instanceof Date
InstanceOfDate(v) == v.kind \in {"date", "invalidDate"}

\* a.getTime() > b.getTime() and its relatives; any comparison with NaN is false.
TimeGT(a, b) == a.kind = "date" /\ b.kind = "date" /\ a.t > b.t
TimeGE(a, b) == a.kind = "date" /\ b.kind = "date" /\ a.t >= b.t
TimeLT(a, b) == a.kind = "date" /\ b.kind = "date" /\ a.t < b.t
TimeLE(a, b) == a.kind = "date" /\ b.kind = "date" /\ a.t <= b.t

\* a === b comparing the two Date objects instead of their getTime(): a copy
\* is never the object it was copied from.
TimeEQByIdentity(a, b) == FALSE

\* a.getTime() === b.getTime()
TimeEQ(a, b) == a.kind = "date" /\ b.kind = "date" /\ a.t = b.t

\* new Date(d): a copy holding the same instant.
NewDate(d) == d

\* d.setDate(d.getDate() + n): n calendar days later, same time of day.
SetDate(d, n) == IF d.kind = "date" THEN DateAt(d.t + n * TicksPerDay) ELSE d

----------------------------------------------------------------------------
\* Outcomes of a call.

MustBeDefined == "dateRange must be defined and contain both startDate and endDate."
CannotBeNull == "Both startDate and endDate cannot be null."
MustBeDate == "Both startDate and endDate must be instances of the Date class."
StartAfterEnd == "startDate cannot be after endDate."

NoOutcome ==
    [kind |-> "none", type |-> "", message |-> "", bool |-> FALSE, dates |-> <<>>]
DateRangeCheckerError(message) ==
    [kind |-> "throw", type |-> "DateRangeCheckerError", message |-> message,
     bool |-> FALSE, dates |-> <<>>]
ReturnVoid ==
    [kind |-> "return", type |-> "void", message |-> "", bool |-> FALSE, dates |-> <<>>]
ReturnBoolean(b) ==
    [kind |-> "return", type |-> "boolean", message |-> "", bool |-> b, dates |-> <<>>]
ReturnDates(ds) ==
    [kind |-> "return", type |-> "Date[]", message |-> "", bool |-> FALSE, dates |-> ds]

Throws(o) == o.kind = "throw"

----------------------------------------------------------------------------
\* checkDateRangeFormat: the four checks, in the order of the code.

\* checkDateRangeFormat with the null check moved ahead of the undefined check.
checkDateRangeFormatNullFirst(dateRange) ==
    IF dateRange.kind # "object"
    THEN DateRangeCheckerError(MustBeDefined)
    ELSE IF dateRange.startDate.kind = "null" \/ dateRange.endDate.kind = "null"
    THEN DateRangeCheckerError(CannotBeNull)
    ELSE IF dateRange.startDate.kind = "undefined" \/ dateRange.endDate.kind = "undefined"
    THEN DateRangeCheckerError(MustBeDefined)
    ELSE IF ~InstanceOfDate(dateRange.startDate) \/ ~InstanceOfDate(dateRange.endDate)
    THEN DateRangeCheckerError(MustBeDate)
    ELSE IF TimeGT(dateRange.startDate, dateRange.endDate)
    THEN DateRangeCheckerError(StartAfterEnd)
    ELSE ReturnVoid

\* checkDateRangeFormat rejecting startDate >= endDate instead of startDate > endDate.
checkDateRangeFormatRejectsEqual(dateRange) ==
    IF \/ dateRange.kind # "object"
       \/ dateRange.startDate.kind = "undefined"
       \/ dateRange.endDate.kind = "undefined"
    THEN DateRangeCheckerError(MustBeDefined)
    ELSE IF dateRange.startDate.kind = "null" \/ dateRange.endDate.kind = "null"
    THEN DateRangeCheckerError(CannotBeNull)
    ELSE IF ~InstanceOfDate(dateRange.startDate) \/ ~InstanceOfDate(dateRange.endDate)
    THEN DateRangeCheckerError(MustBeDate)
    ELSE IF TimeGE(dateRange.startDate, dateRange.endDate)
    THEN DateRangeCheckerError(StartAfterEnd)
    ELSE ReturnVoid

checkDateRangeFormat(dateRange) ==
    IF \/ dateRange.kind # "object"
       \/ dateRange.startDate.kind = "undefined"
       \/ dateRange.endDate.kind = "undefined"
    THEN DateRangeCheckerError(MustBeDefined)
    ELSE IF dateRange.startDate.kind = "null" \/ dateRange.endDate.kind = "null"
    THEN DateRangeCheckerError(CannotBeNull)
    ELSE IF ~InstanceOfDate(dateRange.startDate) \/ ~InstanceOfDate(dateRange.endDate)
    THEN DateRangeCheckerError(MustBeDate)
    ELSE IF TimeGT(dateRange.startDate, dateRange.endDate)
    THEN DateRangeCheckerError(StartAfterEnd)
    ELSE ReturnVoid

\* checkBoth forgetting the comparison argument.
checkBothReferenceOnly(referenceRange, comparisonRange) ==
    checkDateRangeFormat(referenceRange)

\* The two opening statements of every public function: the reference is
\* checked first, then the comparison; the first throw ends the call.
checkBoth(referenceRange, comparisonRange) ==
    IF Throws(checkDateRangeFormat(referenceRange))
    THEN checkDateRangeFormat(referenceRange)
    ELSE checkDateRangeFormat(comparisonRange)

----------------------------------------------------------------------------
\* findDateRangeEachDates: the while loop, one iteration per unfolding.

RECURSIVE eachDatesLoop(_, _, _)
eachDatesLoop(currentDate, endDate, result) ==
    IF TimeLE(currentDate, endDate)
    THEN eachDatesLoop(SetDate(currentDate, 1), endDate,
                       Append(result, NewDate(currentDate).t))
    ELSE result

\* findDateRangeEachDates filling its result from the front (unshift for push).
findDateRangeEachDatesUnshift(dateRange) ==
    LET pushed == eachDatesLoop(NewDate(dateRange.startDate), dateRange.endDate, <<>>)
    IN  [i \in 1..Len(pushed) |-> pushed[Len(pushed) + 1 - i]]

findDateRangeEachDates(dateRange) ==
    eachDatesLoop(NewDate(dateRange.startDate), dateRange.endDate, <<>>)

----------------------------------------------------------------------------
\* The predicates.

isStartDateInRange(referenceRange, comparisonRange) ==
    IF Throws(checkBoth(referenceRange, comparisonRange))
    THEN checkBoth(referenceRange, comparisonRange)
    ELSE ReturnBoolean(
            /\ TimeGE(referenceRange.startDate, comparisonRange.startDate)
            /\ TimeLE(referenceRange.startDate, comparisonRange.endDate))

isEndDateInRange(referenceRange, comparisonRange) ==
    IF Throws(checkBoth(referenceRange, comparisonRange))
    THEN checkBoth(referenceRange, comparisonRange)
    ELSE ReturnBoolean(
            /\ TimeGE(referenceRange.endDate, comparisonRange.startDate)
            /\ TimeLE(referenceRange.endDate, comparisonRange.endDate))

\* isStartDateAndEndDateInRange with || for &&.
isStartDateOrEndDateInRange(referenceRange, comparisonRange) ==
    IF Throws(checkBoth(referenceRange, comparisonRange))
    THEN checkBoth(referenceRange, comparisonRange)
    ELSE LET a == isStartDateInRange(referenceRange, comparisonRange)
         IN  IF Throws(a) \/ a.bool
             THEN a
             ELSE isEndDateInRange(referenceRange, comparisonRange)

\* a && b: b is evaluated only when a returned true.
isStartDateAndEndDateInRange(referenceRange, comparisonRange) ==
    IF Throws(checkBoth(referenceRange, comparisonRange))
    THEN checkBoth(referenceRange, comparisonRange)
    ELSE LET a == isStartDateInRange(referenceRange, comparisonRange)
         IN  IF Throws(a) \/ ~a.bool
             THEN a
             ELSE isEndDateInRange(referenceRange, comparisonRange)

isStartDateAndEndDateIncludeRange(referenceRange, comparisonRange) ==
    IF Throws(checkBoth(referenceRange, comparisonRange))
    THEN checkBoth(referenceRange, comparisonRange)
    ELSE ReturnBoolean(
            /\ TimeLE(referenceRange.startDate, comparisonRange.startDate)
            /\ TimeGE(referenceRange.endDate, comparisonRange.endDate))

\* isInRange without its third disjunct.
isInRangeWithoutInclude(referenceRange, comparisonRange) ==
    IF Throws(checkBoth(referenceRange, comparisonRange))
    THEN checkBoth(referenceRange, comparisonRange)
    ELSE LET a == isStartDateInRange(referenceRange, comparisonRange)
         IN  IF Throws(a) \/ a.bool
             THEN a
             ELSE isEndDateInRange(referenceRange, comparisonRange)

\* isInRange without its second disjunct.
isInRangeWithoutEndDate(referenceRange, comparisonRange) ==
    IF Throws(checkBoth(referenceRange, comparisonRange))
    THEN checkBoth(referenceRange, comparisonRange)
    ELSE LET a == isStartDateInRange(referenceRange, comparisonRange)
         IN  IF Throws(a) \/ a.bool
             THEN a
             ELSE isStartDateAndEndDateIncludeRange(referenceRange, comparisonRange)

\* a || b || c: the first call that throws or returns true ends the evaluation.
isInRange(referenceRange, comparisonRange) ==
    IF Throws(checkBoth(referenceRange, comparisonRange))
    THEN checkBoth(referenceRange, comparisonRange)
    ELSE LET a == isStartDateInRange(referenceRange, comparisonRange)
             b == isEndDateInRange(referenceRange, comparisonRange)
         IN  IF Throws(a) \/ a.bool
             THEN a
             ELSE IF Throws(b) \/ b.bool
             THEN b
             ELSE isStartDateAndEndDateIncludeRange(referenceRange, comparisonRange)

----------------------------------------------------------------------------
\* The extractions.

findOverlappingDates(referenceRange, comparisonRange) ==
    IF Throws(checkBoth(referenceRange, comparisonRange))
    THEN checkBoth(referenceRange, comparisonRange)
    ELSE LET inRange == isInRange(referenceRange, comparisonRange)
             startDate ==
                 IF TimeGT(referenceRange.startDate, comparisonRange.startDate)
                 THEN NewDate(referenceRange.startDate)
                 ELSE NewDate(comparisonRange.startDate)
             endDate ==
                 IF TimeLT(referenceRange.endDate, comparisonRange.endDate)
                 THEN NewDate(referenceRange.endDate)
                 ELSE NewDate(comparisonRange.endDate)
         IN  IF Throws(inRange)
             THEN inRange
             ELSE IF ~inRange.bool
             THEN ReturnDates(<<>>)
             ELSE ReturnDates(findDateRangeEachDates(DateRange(startDate, endDate)))

findNonOverlappingDates(referenceRange, comparisonRange) ==
    IF Throws(checkBoth(referenceRange, comparisonRange))
    THEN checkBoth(referenceRange, comparisonRange)
    ELSE LET inRange == isInRange(referenceRange, comparisonRange)
             firstStartDate ==
                 IF TimeLT(referenceRange.startDate, comparisonRange.startDate)
                 THEN NewDate(referenceRange.startDate)
                 ELSE NewDate(comparisonRange.startDate)
             firstEndDate ==
                 SetDate(IF TimeEQ(firstStartDate, referenceRange.startDate)
                         THEN NewDate(comparisonRange.startDate)
                         ELSE NewDate(referenceRange.startDate), -1)
             secondStartDate0 ==
                 IF TimeLT(referenceRange.endDate, comparisonRange.endDate)
                 THEN NewDate(referenceRange.endDate)
                 ELSE NewDate(comparisonRange.endDate)
             secondEndDate ==
                 IF TimeEQ(secondStartDate0, referenceRange.endDate)
                 THEN NewDate(comparisonRange.endDate)
                 ELSE NewDate(referenceRange.endDate)
             secondStartDate == SetDate(secondStartDate0, 1)
         IN  IF Throws(inRange)
             THEN inRange
             ELSE IF ~inRange.bool
             THEN ReturnDates(
                     findDateRangeEachDates(
                         DateRange(referenceRange.startDate, referenceRange.endDate))
                     \o findDateRangeEachDates(
                         DateRange(comparisonRange.startDate, comparisonRange.endDate)))
             ELSE ReturnDates(
                     findDateRangeEachDates(DateRange(firstStartDate, firstEndDate))
                     \o findDateRangeEachDates(DateRange(secondStartDate, secondEndDate)))

----------------------------------------------------------------------------
\* The Date objects of a call.  A Date is mutable (setDate), so the objects
\* the arguments hold and the objects the code creates are cells of a heap:
\* one cell for each field of each argument and one for each local Date
\* variable of the code.  The functions below follow the same statements as
\* the ones above and return the heap as the call leaves it, together with
\* the dates it produced.

InputCells ==
    {"reference.startDate", "reference.endDate",
     "comparison.startDate", "comparison.endDate"}
LocalCells ==
    {"currentDate", "startDate", "endDate",
     "firstStartDate", "firstEndDate", "secondStartDate", "secondEndDate"}

\* The heap a call starts with: the arguments' fields, no local yet.
HeapOf(referenceRange, comparisonRange) ==
    [c \in InputCells \cup LocalCells |->
        CASE c = "reference.startDate" -> referenceRange.startDate
          [] c = "reference.endDate" -> referenceRange.endDate
          [] c = "comparison.startDate" -> comparisonRange.startDate
          [] c = "comparison.endDate" -> comparisonRange.endDate
          [] OTHER -> Undefined]

\* const local = new Date(from)
HeapNew(heap, local, from) == [heap EXCEPT ![local] = NewDate(heap[from])]

\* cell.setDate(cell.getDate() + n)
HeapSetDate(heap, cell, n) == [heap EXCEPT ![cell] = SetDate(heap[cell], n)]

\* An argument as its caller sees it once the call is over.
RangeAfter(range, heap, name) ==
    IF range.kind = "object"
    THEN DateRange(heap[name \o ".startDate"], heap[name \o ".endDate"])
    ELSE range

RECURSIVE eachDatesLoopOn(_, _, _, _)
eachDatesLoopOn(heap, currentDate, endDate, result) ==
    IF TimeLE(heap[currentDate], heap[endDate])
    THEN eachDatesLoopOn(HeapSetDate(heap, currentDate, 1), currentDate, endDate,
                         Append(result, NewDate(heap[currentDate]).t))
    ELSE [heap |-> heap, dates |-> result]

\* findDateRangeEachDates advancing dateRange.startDate itself:
\* let currentDate = dateRange.startDate, without new Date(...).
findDateRangeEachDatesOnNoCopy(heap, dateRange) ==
    eachDatesLoopOn(heap, dateRange.startDate, dateRange.endDate, <<>>)

\* dateRange names the cells of its two fields.
findDateRangeEachDatesOn(heap, dateRange) ==
    eachDatesLoopOn(HeapNew(heap, "currentDate", dateRange.startDate),
                    "currentDate", dateRange.endDate, <<>>)

findOverlappingDatesOn(referenceRange, comparisonRange) ==
    LET heap0 == HeapOf(referenceRange, comparisonRange)
        heap1 ==
            IF TimeGT(heap0["reference.startDate"], heap0["comparison.startDate"])
            THEN HeapNew(heap0, "startDate", "reference.startDate")
            ELSE HeapNew(heap0, "startDate", "comparison.startDate")
        heap2 ==
            IF TimeLT(heap1["reference.endDate"], heap1["comparison.endDate"])
            THEN HeapNew(heap1, "endDate", "reference.endDate")
            ELSE HeapNew(heap1, "endDate", "comparison.endDate")
    IN  IF \/ Throws(checkBoth(referenceRange, comparisonRange))
           \/ ~isInRange(referenceRange, comparisonRange).bool
        THEN [heap |-> heap0, dates |-> <<>>]
        ELSE findDateRangeEachDatesOn(
                 heap2, [startDate |-> "startDate", endDate |-> "endDate"])

findNonOverlappingDatesOn(referenceRange, comparisonRange) ==
    LET heap0 == HeapOf(referenceRange, comparisonRange)
        \* the ranges do not intersect: the arguments' own Date objects are passed on
        whole1 ==
            findDateRangeEachDatesOn(
                heap0, [startDate |-> "reference.startDate",
                        endDate |-> "reference.endDate"])
        whole2 ==
            findDateRangeEachDatesOn(
                whole1.heap, [startDate |-> "comparison.startDate",
                              endDate |-> "comparison.endDate"])
        \* the ranges intersect
        heap1 ==
            IF TimeLT(heap0["reference.startDate"], heap0["comparison.startDate"])
            THEN HeapNew(heap0, "firstStartDate", "reference.startDate")
            ELSE HeapNew(heap0, "firstStartDate", "comparison.startDate")
        heap2 ==
            IF TimeEQ(heap1["firstStartDate"], heap1["reference.startDate"])
            THEN HeapNew(heap1, "firstEndDate", "comparison.startDate")
            ELSE HeapNew(heap1, "firstEndDate", "reference.startDate")
        heap3 == HeapSetDate(heap2, "firstEndDate", -1)
        heap4 ==
            IF TimeLT(heap3["reference.endDate"], heap3["comparison.endDate"])
            THEN HeapNew(heap3, "secondStartDate", "reference.endDate")
            ELSE HeapNew(heap3, "secondStartDate", "comparison.endDate")
        heap5 ==
            IF TimeEQ(heap4["secondStartDate"], heap4["reference.endDate"])
            THEN HeapNew(heap4, "secondEndDate", "comparison.endDate")
            ELSE HeapNew(heap4, "secondEndDate", "reference.endDate")
        heap6 == HeapSetDate(heap5, "secondStartDate", 1)
        block1 ==
            findDateRangeEachDatesOn(
                heap6, [startDate |-> "firstStartDate", endDate |-> "firstEndDate"])
        block2 ==
            findDateRangeEachDatesOn(
                block1.heap, [startDate |-> "secondStartDate",
                              endDate |-> "secondEndDate"])
    IN  IF Throws(checkBoth(referenceRange, comparisonRange))
        THEN [heap |-> heap0, dates |-> <<>>]
        ELSE IF ~isInRange(referenceRange, comparisonRange).bool
        THEN [heap |-> whole2.heap, dates |-> whole1.dates \o whole2.dates]
        ELSE [heap |-> block2.heap, dates |-> block1.dates \o block2.dates]

----------------------------------------------------------------------------
\* The state machine: a caller builds two arguments and makes one call.

Init ==
    /\ referenceDateRange \in RangeValues
    /\ comparisonDateRange \in RangeValues
    /\ called = "none"
    /\ outcome = NoOutcome

CallCheckDateRangeFormat ==
    /\ called = "none"
    /\ called' = "checkDateRangeFormat"
    /\ outcome' = checkDateRangeFormat(referenceDateRange)
    /\ UNCHANGED <<referenceDateRange, comparisonDateRange>>

CallIsInRange ==
    /\ called = "none"
    /\ called' = "isInRange"
    /\ outcome' = isInRange(referenceDateRange, comparisonDateRange)
    /\ UNCHANGED <<referenceDateRange, comparisonDateRange>>

CallIsStartDateInRange ==
    /\ called = "none"
    /\ called' = "isStartDateInRange"
    /\ outcome' = isStartDateInRange(referenceDateRange, comparisonDateRange)
    /\ UNCHANGED <<referenceDateRange, comparisonDateRange>>

CallIsEndDateInRange ==
    /\ called = "none"
    /\ called' = "isEndDateInRange"
    /\ outcome' = isEndDateInRange(referenceDateRange, comparisonDateRange)
    /\ UNCHANGED <<referenceDateRange, comparisonDateRange>>

CallIsStartDateAndEndDateInRange ==
    /\ called = "none"
    /\ called' = "isStartDateAndEndDateInRange"
    /\ outcome' = isStartDateAndEndDateInRange(referenceDateRange, comparisonDateRange)
    /\ UNCHANGED <<referenceDateRange, comparisonDateRange>>

CallIsStartDateAndEndDateIncludeRange ==
    /\ called = "none"
    /\ called' = "isStartDateAndEndDateIncludeRange"
    /\ outcome' = isStartDateAndEndDateIncludeRange(referenceDateRange, comparisonDateRange)
    /\ UNCHANGED <<referenceDateRange, comparisonDateRange>>

CallFindOverlappingDates ==
    /\ called = "none"
    /\ called' = "findOverlappingDates"
    /\ outcome' = findOverlappingDates(referenceDateRange, comparisonDateRange)
    /\ LET after == findOverlappingDatesOn(referenceDateRange, comparisonDateRange).heap
       IN  /\ referenceDateRange' = RangeAfter(referenceDateRange, after, "reference")
           /\ comparisonDateRange' = RangeAfter(comparisonDateRange, after, "comparison")

CallFindNonOverlappingDates ==
    /\ called = "none"
    /\ called' = "findNonOverlappingDates"
    /\ outcome' = findNonOverlappingDates(referenceDateRange, comparisonDateRange)
    /\ LET after == findNonOverlappingDatesOn(referenceDateRange, comparisonDateRange).heap
       IN  /\ referenceDateRange' = RangeAfter(referenceDateRange, after, "reference")
           /\ comparisonDateRange' = RangeAfter(comparisonDateRange, after, "comparison")

\* The day-enumeration helper called on its own.  Inside the library it is
\* only ever handed Date objects, which is what the guard says.
CallFindDateRangeEachDates ==
    /\ called = "none"
    /\ referenceDateRange.kind = "object"
    /\ InstanceOfDate(referenceDateRange.startDate)
    /\ InstanceOfDate(referenceDateRange.endDate)
    /\ called' = "findDateRangeEachDates"
    /\ outcome' = ReturnDates(findDateRangeEachDates(referenceDateRange))
    /\ LET after ==
               findDateRangeEachDatesOn(
                   HeapOf(referenceDateRange, comparisonDateRange),
                   [startDate |-> "reference.startDate",
                    endDate |-> "reference.endDate"]).heap
       IN  /\ referenceDateRange' = RangeAfter(referenceDateRange, after, "reference")
           /\ comparisonDateRange' = RangeAfter(comparisonDateRange, after, "comparison")

Next ==
    \/ CallCheckDateRangeFormat
    \/ CallIsInRange
    \/ CallIsStartDateInRange
    \/ CallIsEndDateInRange
    \/ CallIsStartDateAndEndDateInRange
    \/ CallIsStartDateAndEndDateIncludeRange
    \/ CallFindOverlappingDates
    \/ CallFindNonOverlappingDates
    \/ CallFindDateRangeEachDates

Spec == Init /\ [][Next]_vars

----------------------------------------------------------------------------
\* Vocabulary of the properties.

A == referenceDateRange
B == comparisonDateRange

PublicFunctions ==
    {"isInRange", "isStartDateInRange", "isEndDateInRange",
     "isStartDateAndEndDateInRange", "isStartDateAndEndDateIncludeRange",
     "findOverlappingDates", "findNonOverlappingDates"}

\* A well-formed range: an object with two real dates, startDate <= endDate.
Valid(r) ==
    /\ r.kind = "object"
    /\ r.startDate.kind = "date"
    /\ r.endDate.kind = "date"
    /\ r.startDate.t <= r.endDate.t

\* The ways of being malformed.
Absent(r) ==
    r.kind # "object" \/ r.startDate.kind = "undefined" \/ r.endDate.kind = "undefined"
HasNull(r) ==
    r.kind = "object" /\ (r.startDate.kind = "null" \/ r.endDate.kind = "null")
HasNonDate(r) ==
    r.kind = "object" /\ (r.startDate.kind = "string" \/ r.endDate.kind = "string")
Inverted(r) ==
    /\ r.kind = "object"
    /\ r.startDate.kind = "date"
    /\ r.endDate.kind = "date"
    /\ r.startDate.t > r.endDate.t
Malformed(r) == Absent(r) \/ HasNull(r) \/ HasNonDate(r) \/ Inverted(r)

\* Two closed intervals of instants intersect.
Intersects(r, q) == r.startDate.t <= q.endDate.t /\ q.startDate.t <= r.endDate.t

----------------------------------------------------------------------------
----------------------------------------------------------------------------
\* C7: checkDateRangeFormat reports the first failing check in the fixed order
\* (1) range, startDate or endDate undefined -> "must be defined", (2) a null
\* field -> "cannot be null", (3) a field that is not a Date -> "must be
\* instances of Date", (4) startDate after endDate -> "startDate cannot be
\* after endDate"; every failure is a DateRangeCheckerError.
C7_FirstFailingCheck ==
    called = "checkDateRangeFormat" =>
        /\ Absent(A) => outcome = DateRangeCheckerError(MustBeDefined)
        /\ (~Absent(A) /\ HasNull(A)) => outcome = DateRangeCheckerError(CannotBeNull)
        /\ (~Absent(A) /\ ~HasNull(A) /\ HasNonDate(A))
               => outcome = DateRangeCheckerError(MustBeDate)
        /\ (~Absent(A) /\ ~HasNull(A) /\ ~HasNonDate(A) /\ Inverted(A))
               => outcome = DateRangeCheckerError(StartAfterEnd)
        /\ Throws(outcome) => outcome.type = "DateRangeCheckerError"

\* startDate null and endDate undefined: two checks fail, the first one speaks.
C7_Witness ==
    /\ called = "checkDateRangeFormat"
    /\ A.kind = "object"
    /\ A.startDate = Null
    /\ A.endDate = Undefined
    /\ outcome = DateRangeCheckerError(MustBeDefined)

----------------------------------------------------------------------------
\* C8: each of the seven public functions throws DateRangeCheckerError, and
\* returns nothing, whenever its reference or its comparison argument is
\* malformed (undefined, a null field, a non-Date field, startDate after
\* endDate), even when the other argument is valid.
C8_MalformedArgumentThrows ==
    (called \in PublicFunctions /\ (Malformed(A) \/ Malformed(B))) =>
        /\ outcome.kind = "throw"
        /\ outcome.type = "DateRangeCheckerError"
        /\ outcome.dates = <<>>

\* A valid reference with an inverted comparison.
C8_Witness ==
    /\ called = "findNonOverlappingDates"
    /\ Valid(A)
    /\ Inverted(B)
    /\ outcome = DateRangeCheckerError(StartAfterEnd)

----------------------------------------------------------------------------
\* C9: when both arguments are well-formed ranges with startDate <= endDate
\* (single-day ranges included) none of the seven public functions throws:
\* the five predicates return a boolean, the two extractions a date sequence.
C9_ValidArgumentsNeverThrow ==
    (called \in PublicFunctions /\ Valid(A) /\ Valid(B)) =>
        /\ outcome.kind = "return"
        /\ outcome.type =
               IF called \in {"findOverlappingDates", "findNonOverlappingDates"}
               THEN "Date[]"
               ELSE "boolean"

\* Two single-day ranges.
C9_Witness ==
    /\ called = "findOverlappingDates"
    /\ Valid(A) /\ Valid(B)
    /\ A.startDate = A.endDate
    /\ B.startDate = B.endDate
    /\ outcome.kind = "return"

----------------------------------------------------------------------------
\* C10: for valid ranges A and B, isInRange(A, B) = isInRange(B, A).
C10_IsInRangeSymmetric ==
    (called = "isInRange" /\ Valid(A) /\ Valid(B)) => outcome = isInRange(B, A)

\* B strictly inside A: isStartDateAndEndDateIncludeRange holds one way only.
C10_Witness ==
    /\ called = "isInRange"
    /\ Valid(A) /\ Valid(B)
    /\ isStartDateAndEndDateIncludeRange(A, B).bool
    /\ ~isStartDateAndEndDateIncludeRange(B, A).bool
    /\ outcome = ReturnBoolean(TRUE)

----------------------------------------------------------------------------
\* Calendar days.

\* The calendar day an instant falls on.
DayOf(t) == t \div TicksPerDay

\* The calendar days a valid range covers, from the day of its startDate to
\* the day of its endDate.
DaysOf(r) == DayOf(r.startDate.t)..DayOf(r.endDate.t)

\* The days from..to in ascending order; empty when to < from.
DaySeq(from, to) == [i \in 1..(to - from + 1) |-> from + i - 1]

\* The calendar days of the entries of a returned sequence, in its order.
DaysIn(dates) == [i \in 1..Len(dates) |-> DayOf(dates[i])]

Min(x, y) == IF x <= y THEN x ELSE y
Max(x, y) == IF x >= y THEN x ELSE y

\* Every element is strictly later than the one before it.
Ascending(dates) == \A i \in 1..(Len(dates) - 1) : dates[i] < dates[i + 1]

----------------------------------------------------------------------------
\* C5 as stated: for all valid ranges A and B the sequence returned by
\* findNonOverlappingDates(A, B) is ascending by date, every element strictly
\* later than the element before it.
C5_AlwaysAscending ==
    (called = "findNonOverlappingDates" /\ Valid(A) /\ Valid(B))
        => Ascending(outcome.dates)

\* C5 as amended: the sequence returned by findNonOverlappingDates(A, B) is
\* ascending exactly when A and B intersect or A ends before B starts; when B
\* lies wholly before A, A's days come first and the sequence steps back in
\* time where B's days begin.
C5_AscendingUnlessComparisonFirst ==
    (called = "findNonOverlappingDates" /\ Valid(A) /\ Valid(B)) =>
        /\ outcome.kind = "return"
        /\ Ascending(outcome.dates) <=> (Intersects(A, B) \/ A.endDate.t < B.startDate.t)

\* Intersecting ranges with a lower and an upper block, two entries in one of them.
C5_Witness ==
    /\ called = "findNonOverlappingDates"
    /\ Valid(A) /\ Valid(B)
    /\ Intersects(A, B)
    /\ A.startDate.t < B.startDate.t
    /\ A.endDate.t < B.endDate.t
    /\ Len(outcome.dates) >= 3
    /\ Ascending(outcome.dates)

----------------------------------------------------------------------------
\* C2: for valid ranges A and B, findOverlappingDates(A, B) returns the empty
\* sequence when A and B do not intersect, and otherwise the days from
\* max(A.startDate, B.startDate) to min(A.endDate, B.endDate) inclusive, in
\* ascending order without gaps or duplicates: min(A.end, B.end) -
\* max(A.start, B.start) + 1 days.
C2_OverlapIsIntersectionDays ==
    (called = "findOverlappingDates" /\ Valid(A) /\ Valid(B)) =>
        /\ outcome.kind = "return"
        /\ DaysIn(outcome.dates) =
               IF Intersects(A, B)
               THEN DaySeq(DayOf(Max(A.startDate.t, B.startDate.t)),
                           DayOf(Min(A.endDate.t, B.endDate.t)))
               ELSE <<>>

----------------------------------------------------------------------------
\* C3: for valid ranges A and B that intersect, findNonOverlappingDates(A, B)
\* returns exactly the days that belong to one of the two ranges but not both:
\* a lower block from the earlier start date to the day before the later start
\* date (empty when the starts are equal), then an upper block from the day
\* after the earlier end date to the later end date (empty when the ends are
\* equal); findNonOverlappingDates(A, A) is empty.
C3_NonOverlapIsSymmetricDifference ==
    (called = "findNonOverlappingDates" /\ Valid(A) /\ Valid(B) /\ Intersects(A, B)) =>
        /\ outcome.kind = "return"
        /\ DaysIn(outcome.dates) =
               DaySeq(DayOf(Min(A.startDate.t, B.startDate.t)),
                      DayOf(Max(A.startDate.t, B.startDate.t)) - 1)
               \o DaySeq(DayOf(Min(A.endDate.t, B.endDate.t)) + 1,
                         DayOf(Max(A.endDate.t, B.endDate.t)))
        /\ {DayOf(outcome.dates[i]) : i \in 1..Len(outcome.dates)} =
               (DaysOf(A) \cup DaysOf(B)) \ (DaysOf(A) \cap DaysOf(B))
        /\ A = B => outcome.dates = <<>>

----------------------------------------------------------------------------
\* C4: for valid ranges A and B that do not intersect,
\* findNonOverlappingDates(A, B) returns every day of A in ascending order
\* followed by every day of B in ascending order, whichever range is earlier.
C4_DisjointIsReferenceThenComparison ==
    (called = "findNonOverlappingDates" /\ Valid(A) /\ Valid(B) /\ ~Intersects(A, B)) =>
        /\ outcome.kind = "return"
        /\ DaysIn(outcome.dates) =
               DaySeq(DayOf(A.startDate.t), DayOf(A.endDate.t))
               \o DaySeq(DayOf(B.startDate.t), DayOf(B.endDate.t))

----------------------------------------------------------------------------
\* C6: for valid ranges A and B, every day in the union of A's days and B's
\* days appears in exactly one of findOverlappingDates(A, B) and
\* findNonOverlappingDates(A, B), exactly once, and neither result holds a day
\* outside that union.
C6_ResultsPartitionUnion ==
    (called = "findNonOverlappingDates" /\ Valid(A) /\ Valid(B)) =>
        LET both == DaysIn(findOverlappingDates(A, B).dates \o outcome.dates)
        IN  /\ \A d \in DaysOf(A) \cup DaysOf(B) :
                   Cardinality({i \in 1..Len(both) : both[i] = d}) = 1
            /\ \A i \in 1..Len(both) : both[i] \in DaysOf(A) \cup DaysOf(B)

----------------------------------------------------------------------------
\* C11: for valid ranges A (reference) and B (comparison), isInRange(A, B)
\* returns true if the comparison range is within the reference range
\* (A.startDate <= B.startDate and B.endDate <= A.endDate), false otherwise.
C11_IsInRangeIffComparisonWithin ==
    (called = "isInRange" /\ Valid(A) /\ Valid(B)) =>
        outcome = ReturnBoolean(/\ A.startDate.t <= B.startDate.t
                                /\ B.endDate.t <= A.endDate.t)

----------------------------------------------------------------------------
\* C14: for valid ranges A and B that intersect, findNonOverlappingDates(A, B)
\* and findNonOverlappingDates(B, A) return the same sequence.
C14_NonOverlapSwapInvariant ==
    (called = "findNonOverlappingDates" /\ Valid(A) /\ Valid(B) /\ Intersects(A, B))
        => outcome = findNonOverlappingDates(B, A)

\* Intersecting ranges, neither containing the other: both blocks are filled.
C14_Witness ==
    /\ called = "findNonOverlappingDates"
    /\ Valid(A) /\ Valid(B)
    /\ Intersects(A, B)
    /\ B.startDate.t < A.startDate.t
    /\ B.endDate.t < A.endDate.t
    /\ Len(outcome.dates) >= 2
    /\ outcome.dates[1] = B.startDate.t
    /\ outcome = findNonOverlappingDates(B, A)

----------------------------------------------------------------------------
\* C15: for valid ranges A and B, isStartDateAndEndDateInRange(A, B) is true
\* exactly when A lies within B (B.startDate <= A.startDate and A.endDate <=
\* B.endDate), and it equals isStartDateAndEndDateIncludeRange(B, A).
C15_InRangeIsConverseOfInclude ==
    (called = "isStartDateAndEndDateInRange" /\ Valid(A) /\ Valid(B)) =>
        /\ outcome = ReturnBoolean(/\ B.startDate.t <= A.startDate.t
                                   /\ A.endDate.t <= B.endDate.t)
        /\ outcome = isStartDateAndEndDateIncludeRange(B, A)

\* A strictly inside B: true here, false with the arguments swapped.
C15_Witness ==
    /\ called = "isStartDateAndEndDateInRange"
    /\ Valid(A) /\ Valid(B)
    /\ B.startDate.t < A.startDate.t
    /\ A.endDate.t < B.endDate.t
    /\ outcome = ReturnBoolean(TRUE)
    /\ ~isStartDateAndEndDateInRange(B, A).bool

----------------------------------------------------------------------------
\* The two renderings of the extractions produce the same dates: the heap
\* adds where each date lives, not what it is.
HeapAgreesWithValues ==
    /\ called = "findOverlappingDates"
           => outcome.dates = findOverlappingDatesOn(A, B).dates
    /\ called = "findNonOverlappingDates"
           => outcome.dates = findNonOverlappingDatesOn(A, B).dates
    /\ called = "findDateRangeEachDates"
           => outcome.dates =
                  findDateRangeEachDatesOn(
                      HeapOf(A, B), [startDate |-> "reference.startDate",
                                     endDate |-> "reference.endDate"]).dates

----------------------------------------------------------------------------
\* C12: no function changes its arguments: across any call, returning or
\* throwing, to one of the seven public functions or to the day-enumeration
\* helper, startDate and endDate of both ranges hold the instants they held
\* before; the +1 day / -1 day arithmetic touches internal copies only.
C12_ArgumentsNeverChange ==
    [][/\ referenceDateRange' = referenceDateRange
       /\ comparisonDateRange' = comparisonDateRange]_vars

\* Disjoint ranges: the arguments' own Date objects were handed to the
\* enumeration, which stepped through several days of each.
C12_Witness ==
    /\ called = "findNonOverlappingDates"
    /\ Valid(A) /\ Valid(B)
    /\ ~Intersects(A, B)
    /\ Len(outcome.dates) >= 4
    /\ outcome.dates[1] = A.startDate.t
    /\ outcome.dates[2] > A.startDate.t

----------------------------------------------------------------------------
\* C13: for every valid range, times of day included, the day-enumeration
\* helper returns one entry per calendar day from the calendar day of
\* startDate through the calendar day of endDate inclusive, ascending, each
\* one calendar day after the previous; startDate = endDate yields one entry.
C13_EnumeratesEveryCalendarDay ==
    (called = "findDateRangeEachDates" /\ Valid(A)) =>
        /\ DaysIn(outcome.dates) = DaySeq(DayOf(A.startDate.t), DayOf(A.endDate.t))
        /\ Ascending(outcome.dates)
        /\ A.startDate = A.endDate => Len(outcome.dates) = 1

====
